---- MODULE Spec2Model ----
(***************************************************************************)
(* A model of glue's module manager (src/manager.rs), of the type-erasure  *)
(* bridge between typed modules and JSON values (src/module.rs) and of the *)
(* response aggregator (src/response.rs).                                  *)
(*                                                                         *)
(* Texts (Rust Strings, serialised JSON bytes) are sequences of tokens, so *)
(* that formatting and encoding are computed and not the identity.         *)
(* A serde_json Map is the sequence of its entries in iteration order,     *)
(* with distinct keys.  Insertion replaces the value of a present key in   *)
(* place and appends an absent one; raw envelopes are drawn in every order *)
(* of their entries, which covers the sorted (default) and the             *)
(* insertion-ordered builds of serde_json alike.                           *)
(***************************************************************************)
EXTENDS Naturals, Sequences, FiniteSets, TLC

VARIABLES
    modules,     \* Manager.modules: name -> handle (a function on the registered names)
    mstate,      \* the internal state of the module behind each handle
    pc,          \* "idle"; "instantiate" while its loop runs; "returned" when a call
                 \* has ended and its caller holds the result
    vals,        \* the (module_name, payload) entries of the call's envelope
    idx,         \* the position of the next entry of the instantiate loop
    aggregator,  \* the Aggregator of the running instantiate call
    result,      \* the terminal outcome of the last call
    invoked,     \* the dynamic handlers the call has invoked, in order
    pre,         \* modules and mstate as they were when the call began
    req,         \* the operation and the shape of the raw input of the call
    borrows      \* the RefCell borrows the call has taken and dropped, in order

vars == <<modules, mstate, pc, vals, idx, aggregator, result, invoked, pre, req, borrows>>

(***************************************************************************)
(* Bounds and the finite universe of inputs.                               *)
(***************************************************************************)
MaxEntries == 2
MaxSeq == 2     \* the longest list of events, attributes or messages converted

RegNames == {"a", "b"}          \* the names modules are registered under
Names == RegNames \cup {"z"}    \* the names envelopes address
Handles == {"h1", "h2"}
Payloads == {"p1", "p2"}
StateVals == {0, 1}

\* The payloads that deserialize into the message types of the module behind h.
MsgType(h) == IF h = "h1" THEN {"p1"} ELSE {"p2"}

\* serde_json::Value, as far as module data goes.
Null == [t |-> "null", s |-> ""]
Num7 == [t |-> "num", s |-> "7"]
StrS == [t |-> "str", s |-> "s"]
Values == {Null, Num7, StrS}

(***************************************************************************)
(* serde_json: Map, serialisation and parsing.                             *)
(***************************************************************************)
\* Map::new()
MapNew == <<>>

MapKeys(m) == {m[i].key : i \in 1..Len(m)}

\* Map::insert(k, v): the value of a present key is replaced, an absent key is added.
MapInsert(m, k, v) ==
    IF k \in MapKeys(m)
    THEN [i \in 1..Len(m) |-> IF m[i].key = k THEN [key |-> k, value |-> v] ELSE m[i]]
    ELSE Append(m, [key |-> k, value |-> v])

RECURSIVE MapFromEntries(_)
\* The Map that parsing builds from the members of a JSON object, read left to right.
MapFromEntries(es) ==
    IF es = <<>> THEN MapNew
    ELSE MapInsert(MapFromEntries(SubSeq(es, 1, Len(es) - 1)),
                   es[Len(es)].key, es[Len(es)].value)

\* serde_json::to_vec of a Value
ToVec(v) ==
    CASE v.t = "null" -> <<"null">>
      [] v.t = "num"  -> <<v.s>>
      [] OTHER        -> <<"\"", v.s, "\"">>

RECURSIVE ToVecMembers(_)
ToVecMembers(m) ==
    IF m = <<>> THEN <<>>
    ELSE (<<"\"", m[1].key, "\"", ":">> \o ToVec(m[1].value))
         \o (IF Len(m) = 1 THEN <<>> ELSE <<",">> \o ToVecMembers(Tail(m)))

\* serde_json::to_vec of a Map<String, Value>
ToVecMap(m) == <<"{">> \o ToVecMembers(m) \o <<"}">>

\* serde_json::from_slice of the bytes of a scalar Value
FromSlice(bs) ==
    IF bs = <<"null">> THEN Null
    ELSE IF Len(bs) = 3 THEN [t |-> "str", s |-> bs[2]]
    ELSE [t |-> "num", s |-> bs[1]]

RECURSIVE FromSliceMembers(_)
FromSliceMembers(bs) ==
    IF Len(bs) < 5 THEN <<>>
    ELSE LET n == IF bs[5] = "\"" THEN 3 ELSE 1
             v == FromSlice(SubSeq(bs, 5, 4 + n))
             rest == SubSeq(bs, 5 + n, Len(bs))
         IN  <<[key |-> bs[2], value |-> v]>>
             \o (IF rest # <<>> /\ rest[1] = "," THEN FromSliceMembers(Tail(rest)) ELSE <<>>)

\* serde_json::from_slice of the bytes of an object of scalar Values
FromSliceMap(bs) == MapFromEntries(FromSliceMembers(Tail(bs)))

(***************************************************************************)
(* src/error.rs: the errors and their two renderings.                      *)
(***************************************************************************)
ModuleAlreadyRegistered(n) == [kind |-> "ModuleAlreadyRegistered", arg |-> <<n>>]
NotFoundError(n) == [kind |-> "NotFoundError", arg |-> <<n>>]
ParseError(msg) == [kind |-> "ParseError", arg |-> msg]
TooMany == <<"too many module payloads">>

\* format!("{:?}", err): the derived Debug
DebugFmt(e) ==
    CASE e.kind = "NotFoundError" -> <<"NotFoundError { module: \"", e.arg[1], "\" }">>
      [] e.kind = "ModuleAlreadyRegistered" ->
             <<"ModuleAlreadyRegistered { module: \"", e.arg[1], "\" }">>
      [] e.arg = <<>> -> <<"ParseError { msg: None }">>
      [] OTHER -> <<"ParseError { msg: Some(\"", e.arg[1], "\") }">>

\* err.to_string(): the #[error(...)] Display
DisplayFmt(e) ==
    CASE e.kind = "NotFoundError" -> <<"module \"", e.arg[1], "\" not found">>
      [] e.kind = "ModuleAlreadyRegistered" ->
             <<"module \"", e.arg[1], "\" already registered">>
      [] e.arg = <<>> -> <<"error parsing request: None">>
      [] OTHER -> <<"error parsing request: Some(\"", e.arg[1], "\")">>

\* The Err values that cross the manager's boundary.
ErrString(text) == [wrap |-> "String", text |-> text]
GenericErr(text) == [wrap |-> "StdError::GenericErr", text |-> text]
ErrEnum(e) == [wrap |-> "Error", text |-> <<e.kind>> \o e.arg]
NoErr == [wrap |-> "", text |-> <<>>]

(***************************************************************************)
(* src/response.rs: Response, its conversion, and the Aggregator.          *)
(***************************************************************************)
\* cosmwasm_std::Response::new(); data is an Option: <<>> is None, <<b>> is Some(b)
CwNew == [messages |-> <<>>, attributes |-> <<>>, events |-> <<>>, data |-> <<>>]

\* Response::default()
ResponseNew == [response |-> CwNew, data |-> Null]

\* A conversion without the match on Null: the data is always encoded.
FromEncodesNull(r) ==
    [messages   |-> r.response.messages,
     attributes |-> r.response.attributes,
     events     |-> r.response.events,
     data       |-> <<ToVec(r.data)>>]

\* impl From<Response> for cosmwasm_std::Response<Binary>
From(r) ==
    [messages   |-> r.response.messages,
     attributes |-> r.response.attributes,
     events     |-> r.response.events,
     data       |-> IF r.data = Null THEN <<>> ELSE <<ToVec(r.data)>>]

\* Aggregator::default()
AggregatorNew == [resp |-> CwNew, data |-> MapNew]

\* A fold that puts the module's entries in front of those folded before.
fold_response_prepend(agg, module, resp) ==
    [resp |-> [messages   |-> resp.response.messages \o agg.resp.messages,
               attributes |-> resp.response.attributes \o agg.resp.attributes,
               events     |-> resp.response.events \o agg.resp.events,
               data       |-> agg.resp.data],
     data |-> MapInsert(agg.data, module, resp.data)]

\* Aggregator::fold_response
fold_response(agg, module, resp) ==
    [resp |-> [messages   |-> agg.resp.messages \o resp.response.messages,
               attributes |-> agg.resp.attributes \o resp.response.attributes,
               events     |-> agg.resp.events \o resp.response.events,
               data       |-> agg.resp.data],
     data |-> MapInsert(agg.data, module, resp.data)]

\* An aggregate without the test for an empty map: the data is always serialized.
aggregate_always(agg) == [agg.resp EXCEPT !.data = <<ToVecMap(agg.data)>>]

\* Aggregator::aggregate: the response it returns
aggregate(agg) ==
    IF agg.data # MapNew
    THEN [agg.resp EXCEPT !.data = <<ToVecMap(agg.data)>>]
    ELSE agg.resp

(***************************************************************************)
(* The typed modules are black boxes: what a typed handler returns and the *)
(* state it leaves its module in are chosen by the environment.            *)
(***************************************************************************)
RespA == [response |-> [messages |-> <<"m1">>, attributes |-> <<"a1", "a2">>,
                        events |-> <<"e1">>, data |-> <<>>],
          data |-> Num7]
RespB == [response |-> [messages |-> <<>>, attributes |-> <<"a3">>,
                        events |-> <<"e2", "e3">>, data |-> <<>>],
          data |-> Null]
ModuleErrText == <<"boom">>
SerErrText == <<"key must be a string">>
DeErrText(payload) == <<"invalid type: ", payload>>

\* What Module::execute may do: Ok(resp) or Err(e), leaving the module in state st.
ExecuteChoices ==
    [kind : {"ok"}, resp : {RespA, RespB}, value : {Null}, st : StateVals]
    \cup [kind : {"err"}, resp : {ResponseNew}, value : {Null}, st : StateVals]

\* What Module::instantiate may do.
InstantiateChoices == ExecuteChoices


\* What Module::query may do (it takes the module by shared reference); "ser" is a
\* result that fails to serialize.
QueryChoices ==
    [kind : {"ok"}, resp : {ResponseNew}, value : {Num7, StrS}, st : {0}]
    \cup [kind : {"err", "ser"}, resp : {ResponseNew}, value : {Null}, st : {0}]

(***************************************************************************)
(* src/module.rs: impl GenericModule for T.  Each returns the Result of    *)
(* the dynamic handler, whether the typed handler ran, and the state the   *)
(* module is left in.                                                      *)
(***************************************************************************)
BridgeErr(typed, e, st) ==
    [typed |-> typed, ok |-> FALSE, val |-> <<>>, err |-> e, st |-> st]
BridgeOk(v, st) ==
    [typed |-> TRUE, ok |-> TRUE, val |-> <<v>>, err |-> NoErr, st |-> st]

\* Manager::instantiate folds what instantiate_value returns as a Response (events,
\* attributes, messages and data), so that is what the handler yields here.
instantiate_value(h, cur, msg, c) ==
    IF msg \notin MsgType(h) THEN BridgeErr(FALSE, ErrString(DeErrText(msg)), cur)
    ELSE IF c.kind = "err" THEN BridgeErr(TRUE, ErrString(ModuleErrText), c.st)
    ELSE BridgeOk(c.resp, c.st)

\* A bridge that hands the payload to the typed handler without deserializing it.
execute_value_unchecked(h, cur, msg, c) ==
    IF c.kind = "err" THEN BridgeErr(TRUE, ErrString(ModuleErrText), c.st)
    ELSE BridgeOk(c.resp, c.st)

execute_value(h, cur, msg, c) ==
    IF msg \notin MsgType(h) THEN BridgeErr(FALSE, ErrString(DeErrText(msg)), cur)
    ELSE IF c.kind = "err" THEN BridgeErr(TRUE, ErrString(ModuleErrText), c.st)
    ELSE BridgeOk(c.resp, c.st)

query_value(h, cur, msg, c) ==
    IF msg \notin MsgType(h) THEN BridgeErr(FALSE, GenericErr(DeErrText(msg)), cur)
    ELSE IF c.kind = "err" THEN BridgeErr(TRUE, GenericErr(ModuleErrText), cur)
    ELSE IF c.kind = "ser" THEN BridgeErr(TRUE, GenericErr(SerErrText), cur)
    ELSE BridgeOk(ToVec(c.value), cur)

(***************************************************************************)
(* Raw inputs: text that is no JSON, a JSON value that is no object, or an *)
(* object given by its members as written (keys may repeat).               *)
(***************************************************************************)
NonObjects == {"array", "string", "number", "null"}
Members == [key : Names, value : Payloads]

RECURSIVE SeqsUpTo(_, _)
SeqsUpTo(S, n) ==
    IF n = 0 THEN {<<>>}
    ELSE LET shorter == SeqsUpTo(S, n - 1)
         IN  shorter \cup {Append(q, x) : q \in shorter, x \in S}

RawInputs ==
    [kind : {"invalid"} \cup NonObjects, members : {<<>>}]
    \cup [kind : {"object"}, members : SeqsUpTo(Members, MaxEntries)]

SyntaxErrText == <<"expected value at line 1 column 1">>

\* serde_json::from_str::<Value>(msg)
from_str(raw) ==
    IF raw.kind = "invalid" THEN [ok |-> FALSE, err |-> SyntaxErrText, val |-> raw]
    ELSE [ok |-> TRUE, err |-> <<>>,
          val |-> [kind |-> raw.kind, obj |-> MapFromEntries(raw.members)]]

\* obj.into_iter().collect(): the entries in the Map's iteration order
Collect(obj) == obj

(***************************************************************************)
(* The outcome of a call, and the record of a handler invocation.          *)
(***************************************************************************)
Ok(op, v) == [op |-> op, ok |-> TRUE, val |-> <<v>>, err |-> NoErr]
Err(op, e) == [op |-> op, ok |-> FALSE, val |-> <<>>, err |-> e]
NoResult == [op |-> "none", ok |-> TRUE, val |-> <<>>, err |-> NoErr]

Invocation(op, name, h, payload, ret) ==
    [op |-> op, name |-> name, handle |-> h, payload |-> payload,
     typed |-> ret.typed, ret |-> [ok |-> ret.ok, val |-> ret.val, err |-> ret.err],
     st |-> ret.st]

\* HashMap::new()
HashMapNew == [x \in {} |-> "h1"]

Snapshot == [modules |-> modules, mstate |-> mstate]
NoSnapshot == [modules |-> HashMapNew, mstate |-> [h \in Handles |-> 0]]
NoRequest == [op |-> "none", kind |-> "none", name |-> "", handle |-> ""]

Init ==
    /\ modules = HashMapNew
    /\ mstate = [h \in Handles |-> 0]
    /\ pc = "idle"
    /\ vals = <<>>
    /\ idx = 0
    /\ aggregator = AggregatorNew
    /\ result = NoResult
    /\ invoked = <<>>
    /\ borrows = <<>>
    /\ pre = NoSnapshot
    /\ req = NoRequest

\* A RefMut that is kept and never dropped.
borrow_mut_held(log, h) == Append(log, [ev |-> "borrow_mut", handle |-> h])

\* RefCell::borrow_mut in `module.deref().borrow_mut().execute_value(..)` and
\* `.borrow_mut().instantiate_value(..)?`: the RefMut is a temporary of the call
\* expression, dropped when the statement ends, before the next turn of the loop
\* and before the function returns.
borrow_mut(log, h) ==
    log \o <<[ev |-> "borrow_mut", handle |-> h], [ev |-> "drop", handle |-> h]>>

\* RefCell::borrow in `module.borrow().query_value(..)`: a temporary Ref.
borrow(log, h) ==
    log \o <<[ev |-> "borrow", handle |-> h], [ev |-> "drop", handle |-> h]>>

\* An insert that rebuilds the map around the new entry and loses the others.
HashMapInsertAlone(m, k, v) == [x \in {k} |-> v]

\* HashMap::insert: the new value takes the key's place; the old one is returned.
HashMapInsert(m, k, v) == [x \in (DOMAIN m) \cup {k} |-> IF x = k THEN v ELSE m[x]]

\* Manager::register
Register(name, module) ==
    /\ pc = "idle"
    /\ pre' = Snapshot
    /\ req' = [op |-> "register", kind |-> "none", name |-> name, handle |-> module]
    /\ modules' = HashMapInsert(modules, name, module)
    /\ result' = IF name \in DOMAIN modules
                 THEN Err("register", ErrEnum(ModuleAlreadyRegistered(name)))
                 ELSE Ok("register", "unit")
    /\ vals' = <<>>
    /\ idx' = 0
    /\ invoked' = <<>>
    /\ borrows' = <<>>
    /\ pc' = "returned"
    /\ UNCHANGED <<mstate, aggregator>>

\* A lookup that falls back to some registered module when the key is absent.
HashMapGetOrAny(m, k) ==
    IF k \in DOMAIN m THEN <<m[k]>>
    ELSE IF DOMAIN m # {} THEN <<m[CHOOSE x \in DOMAIN m : TRUE]>> ELSE <<>>

\* A lookup that ignores which registered key it was asked for.
HashMapGetFirst(m, k) ==
    IF k \in DOMAIN m THEN <<m[CHOOSE x \in DOMAIN m : m[x] # m[k] \/ \A y \in DOMAIN m : m[y] = m[k]]>>
    ELSE <<>>

\* HashMap::get: an Option, <<>> for None
HashMapGet(m, k) == IF k \in DOMAIN m THEN <<m[k]>> ELSE <<>>

\* A pattern that takes the first entry and ignores the rest: [(module_name, payload), ..]
FirstPayload(vs) == Len(vs) >= 1

\* The slice pattern [(module_name, payload)] of execute and query
SinglePayload(vs) == Len(vs) = 1

\* What a call to execute or query comes to: its Result, the handlers invoked, the
\* entries of the envelope and the modules' states after it.
Outcome(res, inv, vs, ms) == [result |-> res, invoked |-> inv, vals |-> vs, mstate |-> ms]

\* Manager::execute
execute(raw, c) ==
    LET val == from_str(raw) IN
    IF ~val.ok THEN Outcome(Err("execute", ErrString(val.err)), <<>>, <<>>, mstate)
    ELSE IF val.val.kind = "object" THEN
        LET vs == Collect(val.val.obj) IN
        IF SinglePayload(vs) THEN
            LET module == HashMapGet(modules, vs[1].key) IN
            IF module # <<>> THEN
                LET h == module[1]
                    ret == execute_value(h, mstate[h], vs[1].value, c)
                IN  Outcome(IF ret.ok THEN Ok("execute", From(ret.val[1]))
                            ELSE Err("execute", ret.err),
                            <<Invocation("execute", vs[1].key, h, vs[1].value, ret)>>,
                            vs, [mstate EXCEPT ![h] = ret.st])
            ELSE Outcome(Err("execute", ErrString(DebugFmt(NotFoundError(vs[1].key)))),
                         <<>>, vs, mstate)
        ELSE Outcome(Err("execute", ErrString(DebugFmt(ParseError(TooMany)))),
                     <<>>, vs, mstate)
    ELSE Outcome(Err("execute", ErrString(DebugFmt(ParseError(<<>>)))), <<>>, <<>>, mstate)

\* Manager::query
query(raw, c) ==
    LET val == from_str(raw) IN
    IF ~val.ok THEN Outcome(Err("query", GenericErr(val.err)), <<>>, <<>>, mstate)
    ELSE IF val.val.kind = "object" THEN
        LET vs == Collect(val.val.obj) IN
        IF SinglePayload(vs) THEN
            LET module == HashMapGet(modules, vs[1].key) IN
            IF module # <<>> THEN
                LET h == module[1]
                    ret == query_value(h, mstate[h], vs[1].value, c)
                IN  Outcome(IF ret.ok THEN Ok("query", ret.val[1])
                            ELSE Err("query", ret.err),
                            <<Invocation("query", vs[1].key, h, vs[1].value, ret)>>,
                            vs, [mstate EXCEPT ![h] = ret.st])
            ELSE Outcome(Err("query", GenericErr(DisplayFmt(NotFoundError(vs[1].key)))),
                         <<>>, vs, mstate)
        ELSE Outcome(Err("query", GenericErr(DisplayFmt(ParseError(TooMany)))),
                     <<>>, vs, mstate)
    ELSE Outcome(Err("query", GenericErr(DisplayFmt(ParseError(<<>>)))), <<>>, <<>>, mstate)

Request(op, raw) == [op |-> op, kind |-> raw.kind, name |-> "", handle |-> ""]

\* An execute that takes the addressed module out of the registry (HashMap::remove
\* where the code has HashMap::get).
ExecuteTaking(raw, c) ==
    /\ pc = "idle"
    /\ pre' = Snapshot
    /\ req' = Request("execute", raw)
    /\ LET out == execute(raw, c)
       IN  /\ result' = out.result
           /\ invoked' = out.invoked
           /\ vals' = out.vals
           /\ mstate' = out.mstate
           /\ borrows' = IF out.invoked # <<>>
                         THEN borrow_mut(<<>>, out.invoked[1].handle) ELSE <<>>
           /\ modules' = [x \in DOMAIN modules \ {out.invoked[i].name : i \in DOMAIN out.invoked}
                              |-> modules[x]]
    /\ idx' = 0
    /\ pc' = "returned"
    /\ UNCHANGED aggregator

Execute(raw, c) ==
    /\ pc = "idle"
    /\ pre' = Snapshot
    /\ req' = Request("execute", raw)
    /\ LET out == execute(raw, c)
       IN  /\ result' = out.result
           /\ invoked' = out.invoked
           /\ vals' = out.vals
           /\ mstate' = out.mstate
           /\ borrows' = IF out.invoked # <<>>
                         THEN borrow_mut(<<>>, out.invoked[1].handle) ELSE <<>>
    /\ idx' = 0
    /\ pc' = "returned"
    /\ UNCHANGED <<modules, aggregator>>

Query(raw, c) ==
    /\ pc = "idle"
    /\ pre' = Snapshot
    /\ req' = Request("query", raw)
    /\ LET out == query(raw, c)
       IN  /\ result' = out.result
           /\ invoked' = out.invoked
           /\ vals' = out.vals
           /\ mstate' = out.mstate
           /\ borrows' = IF out.invoked # <<>>
                         THEN borrow(<<>>, out.invoked[1].handle) ELSE <<>>
    /\ idx' = 0
    /\ pc' = "returned"
    /\ UNCHANGED <<modules, aggregator>>

(***************************************************************************)
(* Manager::instantiate, one step per turn of its loop.                    *)
(***************************************************************************)
\* A parse that takes a JSON value that is no object for an envelope without entries.
InstantiateBeginLenient(raw) ==
    /\ pc = "idle"
    /\ pre' = Snapshot
    /\ req' = Request("instantiate", raw)
    /\ aggregator' = AggregatorNew
    /\ invoked' = <<>>
    /\ borrows' = <<>>
    /\ LET val == from_str(raw) IN
       IF ~val.ok THEN
           /\ result' = Err("instantiate", ErrString(val.err))
           /\ vals' = <<>> /\ idx' = 0 /\ pc' = "returned"
       ELSE
           /\ result' = NoResult
           /\ vals' = Collect(val.val.obj) /\ idx' = 1 /\ pc' = "instantiate"
    /\ UNCHANGED <<modules, mstate>>

\* Lines 124-127 and 143-146: parse, and enter the loop or fail.
InstantiateBegin(raw) ==
    /\ pc = "idle"
    /\ pre' = Snapshot
    /\ req' = Request("instantiate", raw)
    /\ aggregator' = AggregatorNew
    /\ invoked' = <<>>
    /\ borrows' = <<>>
    /\ LET val == from_str(raw) IN
       IF ~val.ok THEN
           /\ result' = Err("instantiate", ErrString(val.err))
           /\ vals' = <<>> /\ idx' = 0 /\ pc' = "returned"
       ELSE IF val.val.kind = "object" THEN
           /\ result' = NoResult
           /\ vals' = Collect(val.val.obj) /\ idx' = 1 /\ pc' = "instantiate"
       ELSE
           /\ result' = Err("instantiate", ErrString(DebugFmt(ParseError(<<>>))))
           /\ vals' = <<>> /\ idx' = 0 /\ pc' = "returned"
    /\ UNCHANGED <<modules, mstate>>

\* A loop that passes over an entry whose module is missing.
InstantiateStepSkip(c) ==
    /\ pc = "instantiate"
    /\ idx <= Len(vals)
    /\ LET module_name == vals[idx].key
           payload == vals[idx].value
           module == HashMapGet(modules, module_name)
       IN  IF module # <<>> THEN
               LET h == module[1]
                   ret == instantiate_value(h, mstate[h], payload, c)
               IN  /\ invoked' = Append(invoked,
                                        Invocation("instantiate", module_name, h, payload, ret))
                   /\ mstate' = [mstate EXCEPT ![h] = ret.st]
                   /\ borrows' = borrow_mut(borrows, h)
                   /\ IF ret.ok THEN
                          /\ aggregator' = fold_response(aggregator, module_name, ret.val[1])
                          /\ idx' = idx + 1
                          /\ UNCHANGED <<pc, result>>
                      ELSE
                          /\ result' = Err("instantiate", ret.err)
                          /\ pc' = "returned"
                          /\ UNCHANGED <<aggregator, idx>>
           ELSE
               /\ idx' = idx + 1
               /\ UNCHANGED <<mstate, invoked, borrows, aggregator, pc, result>>
    /\ UNCHANGED <<modules, vals, pre, req>>

\* A loop that undoes the earlier modules' state changes when the call fails.
InstantiateStepRollback(c) ==
    /\ pc = "instantiate"
    /\ idx <= Len(vals)
    /\ LET module_name == vals[idx].key
           payload == vals[idx].value
           module == HashMapGet(modules, module_name)
       IN  IF module # <<>> THEN
               LET h == module[1]
                   ret == instantiate_value(h, mstate[h], payload, c)
               IN  /\ invoked' = Append(invoked,
                                        Invocation("instantiate", module_name, h, payload, ret))
                   /\ mstate' = IF ret.ok THEN [mstate EXCEPT ![h] = ret.st] ELSE pre.mstate
                   /\ borrows' = borrow_mut(borrows, h)
                   /\ IF ret.ok THEN
                          /\ aggregator' = fold_response(aggregator, module_name, ret.val[1])
                          /\ idx' = idx + 1
                          /\ UNCHANGED <<pc, result>>
                      ELSE
                          /\ result' = Err("instantiate", ret.err)
                          /\ pc' = "returned"
                          /\ UNCHANGED <<aggregator, idx>>
           ELSE
               /\ result' = Err("instantiate",
                                ErrString(DebugFmt(NotFoundError(module_name))))
               /\ pc' = "returned"
               /\ mstate' = pre.mstate
               /\ UNCHANGED <<invoked, borrows, aggregator, idx>>
    /\ UNCHANGED <<modules, vals, pre, req>>

\* A loop that calls a handler that failed a second time before it gives up.
InstantiateStepRetry(c) ==
    /\ pc = "instantiate"
    /\ idx <= Len(vals)
    /\ LET module_name == vals[idx].key
           payload == vals[idx].value
           module == HashMapGet(modules, module_name)
       IN  IF module # <<>> THEN
               LET h == module[1]
                   ret == instantiate_value(h, mstate[h], payload, c)
               IN  /\ invoked' = Append(invoked,
                                        Invocation("instantiate", module_name, h, payload, ret))
                   /\ mstate' = [mstate EXCEPT ![h] = ret.st]
                   /\ borrows' = borrow_mut(borrows, h)
                   /\ IF ret.ok THEN
                          /\ aggregator' = fold_response(aggregator, module_name, ret.val[1])
                          /\ idx' = idx + 1
                          /\ UNCHANGED <<pc, result>>
                      ELSE IF Len(invoked) < idx THEN
                          UNCHANGED <<aggregator, idx, pc, result>>
                      ELSE
                          /\ result' = Err("instantiate", ret.err)
                          /\ pc' = "returned"
                          /\ UNCHANGED <<aggregator, idx>>
           ELSE
               /\ result' = Err("instantiate",
                                ErrString(DebugFmt(NotFoundError(module_name))))
               /\ pc' = "returned"
               /\ UNCHANGED <<mstate, invoked, borrows, aggregator, idx>>
    /\ UNCHANGED <<modules, vals, pre, req>>

\* Lines 128-141: one turn of the loop over the entries.
InstantiateStep(c) ==
    /\ pc = "instantiate"
    /\ idx <= Len(vals)
    /\ LET module_name == vals[idx].key
           payload == vals[idx].value
           module == HashMapGet(modules, module_name)
       IN  IF module # <<>> THEN
               LET h == module[1]
                   ret == instantiate_value(h, mstate[h], payload, c)
               IN  /\ invoked' = Append(invoked,
                                        Invocation("instantiate", module_name, h, payload, ret))
                   /\ mstate' = [mstate EXCEPT ![h] = ret.st]
                   /\ borrows' = borrow_mut(borrows, h)
                   /\ IF ret.ok THEN
                          /\ aggregator' = fold_response(aggregator, module_name, ret.val[1])
                          /\ idx' = idx + 1
                          /\ UNCHANGED <<pc, result>>
                      ELSE
                          /\ result' = Err("instantiate", ret.err)
                          /\ pc' = "returned"
                          /\ UNCHANGED <<aggregator, idx>>
           ELSE
               /\ result' = Err("instantiate",
                                ErrString(DebugFmt(NotFoundError(module_name))))
               /\ pc' = "returned"
               /\ UNCHANGED <<mstate, invoked, borrows, aggregator, idx>>
    /\ UNCHANGED <<modules, vals, pre, req>>

\* Line 142: the loop is over, the aggregated response is returned.
InstantiateEnd ==
    /\ pc = "instantiate"
    /\ idx > Len(vals)
    /\ result' = Ok("instantiate", aggregate(aggregator))
    /\ pc' = "returned"
    /\ UNCHANGED <<modules, mstate, vals, idx, aggregator, invoked, borrows, pre, req>>

\* The call is over: its envelope, aggregator and Result are dropped; the registry
\* and the modules live on.
Return ==
    /\ pc = "returned"
    /\ pc' = "idle"
    /\ vals' = <<>>
    /\ idx' = 0
    /\ aggregator' = AggregatorNew
    /\ result' = NoResult
    /\ invoked' = <<>>
    /\ borrows' = <<>>
    /\ pre' = NoSnapshot
    /\ req' = NoRequest
    /\ UNCHANGED <<modules, mstate>>

Next ==
    \/ \E name \in RegNames, module \in Handles : Register(name, module)
    \/ \E raw \in RawInputs, c \in ExecuteChoices : Execute(raw, c)
    \/ \E raw \in RawInputs, c \in QueryChoices : Query(raw, c)
    \/ \E raw \in RawInputs : InstantiateBegin(raw)
    \/ \E c \in InstantiateChoices : InstantiateStep(c)
    \/ InstantiateEnd
    \/ Return

Spec == Init /\ [][Next]_vars

\* A dispatch call is synchronous: once instantiate has entered its loop, the loop's
\* next turn and the final return are taken, there is no point at which it suspends.
FairSpec ==
    /\ Spec
    /\ WF_vars(\E c \in InstantiateChoices : InstantiateStep(c))
    /\ WF_vars(InstantiateEnd)

(***************************************************************************)
(* The conversion of one module's Response on its own, over every Response *)
(* with lists of up to MaxSeq entries.                                     *)
(***************************************************************************)
Responses ==
    [response : [messages   : SeqsUpTo({"m1", "m2"}, MaxSeq),
                 attributes : SeqsUpTo({"a1", "a2"}, MaxSeq),
                 events     : SeqsUpTo({"e1", "e2"}, MaxSeq),
                 data       : {<<>>}],
     data : Values]

\* let cr: cosmwasm_std::Response<Binary> = r.into()
Convert(r) ==
    /\ pc = "idle"
    /\ pc' = "returned"
    /\ req' = [op |-> "convert", kind |-> "none", name |-> "", handle |-> ""]
    /\ invoked' = <<Invocation("convert", "", "", "", BridgeOk(r, 0))>>
    /\ result' = Ok("convert", From(r))
    /\ UNCHANGED <<modules, mstate, vals, idx, aggregator, pre, borrows>>

ConvNext ==
    \/ \E r \in Responses : Convert(r)
    \/ Return

ConvSpec == Init /\ [][ConvNext]_vars

(***************************************************************************)
(* Properties.  A call's outcome is read in the state "returned".          *)
(***************************************************************************)
Returned(ops) == pc = "returned" /\ req.op \in ops

\* The texts that render NotFoundError { module: n }, ParseError { msg: None } and
\* ParseError { msg: Some("too many module payloads") }, in Debug and in Display.
NotFoundTexts(n) ==
    {<<"NotFoundError { module: \"", n, "\" }">>, <<"module \"", n, "\" not found">>}
NoDetailTexts == {<<"ParseError { msg: None }">>, <<"error parsing request: None">>}
TooManyTexts ==
    {<<"ParseError { msg: Some(\"", "too many module payloads", "\") }">>,
     <<"error parsing request: Some(\"", "too many module payloads", "\")">>}

\* C1: register(n, h2) with n already registered returns AlreadyRegistered(n) and
\* leaves the mapping as it was: n still resolves to the handle of its first
\* registration.
C1_RegisterTwiceKeepsFirst ==
    (Returned({"register"}) /\ req.name \in DOMAIN pre.modules)
        => /\ ~result.ok
           /\ result.err.text = <<"ModuleAlreadyRegistered", req.name>>
           /\ modules = pre.modules

\* C2: execute and query on an object envelope with 0 or with 2 or more top-level
\* keys fail with ParseError "too many module payloads", whatever is registered, and
\* invoke no handler.
C2_TooManyPayloads ==
    (Returned({"execute", "query"}) /\ req.kind = "object" /\ Len(vals) # 1)
        => /\ ~result.ok
           /\ result.err.text \in TooManyTexts
           /\ invoked = <<>>
           /\ mstate = pre.mstate

C2_Witness ==
    /\ Returned({"execute"})
    /\ Len(vals) = 2
    /\ vals[1].key \in DOMAIN modules
    /\ vals[1].value \in MsgType(modules[vals[1].key])
    /\ result.err.text \in TooManyTexts

\* C3: execute and query on a single-key envelope whose key n is not registered fail
\* with NotFound(n), invoke no handler and leave the registry as it was.
C3_NotFound ==
    (Returned({"execute", "query"}) /\ req.kind = "object" /\ Len(vals) = 1
        /\ vals[1].key \notin DOMAIN pre.modules)
        => /\ ~result.ok
           /\ result.err.text \in NotFoundTexts(vals[1].key)
           /\ invoked = <<>>
           /\ modules = pre.modules
           /\ mstate = pre.mstate

C3_Witness ==
    /\ Returned({"query"})
    /\ Len(vals) = 1
    /\ vals[1].key \notin DOMAIN modules
    /\ DOMAIN modules # {}
    /\ result.err.text \in NotFoundTexts(vals[1].key)

\* C4: execute (query) on a single-key envelope {n: p} with n registered invokes the
\* execute (query) handler of the module bound to n exactly once, with p, touches no
\* other module, and returns the handler's result (for execute: the same events,
\* attributes and messages, and data that decodes to the handler's data) or its
\* error text verbatim.
C4_Forwarded ==
    (Returned({"execute", "query"}) /\ req.kind = "object" /\ Len(vals) = 1
        /\ vals[1].key \in DOMAIN pre.modules)
        => /\ Len(invoked) = 1
           /\ invoked[1].op = req.op
           /\ invoked[1].handle = pre.modules[vals[1].key]
           /\ invoked[1].payload = vals[1].value
           /\ \A h \in Handles \ {pre.modules[vals[1].key]} : mstate[h] = pre.mstate[h]
           /\ result.ok = invoked[1].ret.ok
           /\ ~result.ok => result.err = invoked[1].ret.err
           /\ (result.ok /\ req.op = "query") => result.val = invoked[1].ret.val
           /\ (result.ok /\ req.op = "execute") =>
                  LET out == result.val[1]
                      r == invoked[1].ret.val[1]
                  IN  /\ out.events = r.response.events
                      /\ out.attributes = r.response.attributes
                      /\ out.messages = r.response.messages
                      /\ (r.data = Null) = (out.data = <<>>)
                      /\ out.data # <<>> => FromSlice(out.data[1]) = r.data

C4_Witness ==
    /\ Returned({"execute"})
    /\ Len(invoked) = 1
    /\ result.ok
    /\ result.val[1].data # <<>>
    /\ Cardinality({modules[n] : n \in DOMAIN modules}) = 2

RECURSIVE Concat(_, _)
\* The handlers' own sequences of one kind, one after the other in the order invoked.
Concat(log, kind) ==
    IF log = <<>> THEN <<>>
    ELSE Concat(SubSeq(log, 1, Len(log) - 1), kind)
         \o (IF log[Len(log)].ret.ok THEN log[Len(log)].ret.val[1].response[kind] ELSE <<>>)

RECURSIVE StateAfter(_, _, _)
\* The state the invocations of log leave the module behind h in, from state init.
StateAfter(log, h, init) ==
    IF log = <<>> THEN init
    ELSE IF log[Len(log)].handle = h THEN log[Len(log)].st
    ELSE StateAfter(SubSeq(log, 1, Len(log) - 1), h, init)

AllOk(log) == \A j \in 1..Len(log) : log[j].ret.ok
Missing(k) == k \in 1..Len(vals) /\ vals[k].key \notin DOMAIN pre.modules
FirstMissing == CHOOSE k \in 1..Len(vals) : Missing(k) /\ \A j \in 1..(k - 1) : ~Missing(j)

\* C5: an instantiate whose entries are all registered and all succeed returns a
\* response whose events, attributes and messages are the modules' own sequences
\* concatenated in the order the entries were processed, and whose data payload, if
\* any, is keyed by the module names of the envelope.
C5_Concatenated ==
    (Returned({"instantiate"}) /\ req.kind = "object"
        /\ (\A i \in 1..Len(vals) : ~Missing(i)) /\ AllOk(invoked))
        => /\ result.ok
           /\ Len(invoked) = Len(vals)
           /\ \A i \in 1..Len(vals) :
                  /\ invoked[i].name = vals[i].key
                  /\ invoked[i].handle = pre.modules[vals[i].key]
                  /\ invoked[i].payload = vals[i].value
           /\ result.val[1].events = Concat(invoked, "events")
           /\ result.val[1].attributes = Concat(invoked, "attributes")
           /\ result.val[1].messages = Concat(invoked, "messages")
           /\ result.val[1].data # <<>> =>
                  MapKeys(FromSliceMap(result.val[1].data[1]))
                      = {vals[i].key : i \in 1..Len(vals)}

C5_Witness ==
    /\ Returned({"instantiate"})
    /\ result.ok
    /\ Len(invoked) = 2
    /\ invoked[1].handle # invoked[2].handle
    /\ result.val[1].events = <<"e1", "e2", "e3">>
    /\ result.val[1].attributes = <<"a1", "a2", "a3">>
    /\ result.val[1].data # <<>>

\* C6: instantiate processes the entries one at a time in envelope order; on reaching
\* the first entry whose name is not registered, at position k, it fails at once with
\* NotFound(that name): the entries before k have been invoked and folded, and no
\* handler of an entry at or after k is invoked at any point of the call.
C6_AbortAtFirstMissing ==
    (req.op = "instantiate" /\ req.kind = "object" /\ \E k \in 1..Len(vals) : Missing(k))
        => LET k == FirstMissing
           IN  /\ Len(invoked) < k
               /\ pc = "instantiate" => idx <= k
               /\ \A j \in 1..Len(invoked) : invoked[j].name = vals[j].key
               /\ (pc = "returned" /\ AllOk(invoked)) =>
                      /\ ~result.ok
                      /\ result.err.text \in NotFoundTexts(vals[k].key)
                      /\ Len(invoked) = k - 1
                      /\ MapKeys(aggregator.data) = {vals[j].key : j \in 1..(k - 1)}
                      /\ aggregator.resp.events = Concat(invoked, "events")

C6_Witness ==
    /\ Returned({"instantiate"})
    /\ Len(vals) = 2
    /\ Missing(2)
    /\ Len(invoked) = 1
    /\ invoked[1].ret.ok
    /\ result.err.text \in NotFoundTexts(vals[2].key)

\* C7: when instantiate fails at a later entry, the state changes the earlier modules'
\* handlers made are not rolled back, and the caller gets the error alone: no
\* response, and nothing of what was folded.
C7_NoRollback ==
    (Returned({"instantiate"}) /\ req.kind = "object" /\ ~result.ok)
        => /\ result.val = <<>>
           /\ result.err.text \in {<<"boom">>}
                  \cup {<<"invalid type: ", p>> : p \in Payloads}
                  \cup UNION {NotFoundTexts(n) : n \in Names}
           /\ \A h \in Handles : mstate[h] = StateAfter(invoked, h, pre.mstate[h])

C7_Witness ==
    /\ Returned({"instantiate"})
    /\ ~result.ok
    /\ Len(invoked) >= 1
    /\ invoked[1].ret.ok
    /\ aggregator.resp.events # <<>>
    /\ mstate[invoked[1].handle] # pre.mstate[invoked[1].handle]
    /\ mstate[invoked[1].handle] = invoked[1].st

\* C8: the response of a successful instantiate carries a data payload if and only
\* if the data of at least one folded module is not null.
C8_DataIffNonNull ==
    (Returned({"instantiate"}) /\ result.ok)
        => ((result.val[1].data # <<>>)
               <=> (\E i \in 1..Len(invoked) : invoked[i].ret.val[1].data # Null))

C10_NotObjectIsParseError ==
    (Returned({"execute", "query", "instantiate"}) /\ req.kind # "object")
        => /\ ~result.ok
           /\ result.err.text \in NoDetailTexts
           /\ invoked = <<>>

\* C10 as amended: a raw input that is JSON but no object makes execute, query and
\* instantiate fail with ParseError without detail; a raw input that is no JSON at
\* all makes them fail with the JSON parser's own message instead; no handler is
\* invoked in either case.
C10_NotObject ==
    (Returned({"execute", "query", "instantiate"}) /\ req.kind # "object")
        => /\ ~result.ok
           /\ req.kind \in NonObjects => result.err.text \in NoDetailTexts
           /\ req.kind = "invalid" =>
                  result.err.text = <<"expected value at line 1 column 1">>
           /\ invoked = <<>>
           /\ mstate = pre.mstate

C10_Witness ==
    /\ Returned({"instantiate"})
    /\ req.kind = "array"
    /\ DOMAIN modules # {}
    /\ result.err.text \in NoDetailTexts

\* C11: converting one module's Response to the outbound result: null data gives a
\* result without data field; non-null data v gives a data field that decodes to v;
\* either way the events, attributes and messages are carried over unchanged, in the
\* same order.
C11_Conversion ==
    Returned({"convert"})
        => LET r == invoked[1].ret.val[1]
               cr == result.val[1]
           IN  /\ r.data = Null => cr.data = <<>>
               /\ r.data # Null => (Len(cr.data) = 1 /\ FromSlice(cr.data[1]) = r.data)
               /\ cr.events = r.response.events
               /\ cr.attributes = r.response.attributes
               /\ cr.messages = r.response.messages

C11_Witness ==
    /\ Returned({"convert"})
    /\ invoked[1].ret.val[1].data = StrS
    /\ result.val[1].data = <<ToVec(StrS)>>
    /\ result.val[1].events = <<"e2", "e1">>
    /\ result.val[1].attributes = <<"a1">>

\* C12: register(n, h) with n absent succeeds, makes n resolve to h and leaves the
\* binding of every other registered name as it was; registering two distinct names
\* one after the other succeeds both times and both modules are reachable afterwards.
C12_RegisterFresh ==
    (Returned({"register"}) /\ req.name \notin DOMAIN pre.modules)
        => /\ result.ok
           /\ DOMAIN modules = DOMAIN pre.modules \cup {req.name}
           /\ HashMapGet(modules, req.name) = <<req.handle>>
           /\ \A n \in DOMAIN pre.modules : HashMapGet(modules, n) = <<pre.modules[n]>>

C12_Witness ==
    /\ Returned({"register"})
    /\ result.ok
    /\ DOMAIN pre.modules = {"a"}
    /\ req.name = "b"
    /\ modules["a"] # modules["b"]

\* The entry of key k in Map m, as an Option.
MapGet(m, k) == IF k \in MapKeys(m) THEN <<m[CHOOSE i \in 1..Len(m) : m[i].key = k].value>> ELSE <<>>

\* C13: in the data payload of an aggregated instantiate response the keys are
\* exactly the folded modules whose data is not null: a module that returned null
\* data has no key, and each key maps to that module's own data.
C13_KeysAreNonNull ==
    (Returned({"instantiate"}) /\ result.ok /\ result.val[1].data # <<>>)
        => LET payload == FromSliceMap(result.val[1].data[1])
           IN  /\ MapKeys(payload)
                      = {invoked[i].name : i \in {j \in 1..Len(invoked) :
                                                     invoked[j].ret.val[1].data # Null}}
               /\ \A i \in 1..Len(invoked) :
                      invoked[i].ret.val[1].data # Null
                          => MapGet(payload, invoked[i].name) = <<invoked[i].ret.val[1].data>>

\* The texts that render ExecutionError and QueryError { module: n, err: detail },
\* in Debug and in Display.
ExecutionErrorTexts(n, detail) ==
    {<<"ExecutionError { module: \"", n, "\", err: \"">> \o detail \o <<"\" }">>,
     <<"error executing module \"", n, "\": \"">> \o detail \o <<"\"">>}
QueryErrorTexts(n, detail) ==
    {<<"QueryError { module: \"", n, "\", err: \"">> \o detail \o <<"\" }">>,
     <<"error querying module \"", n, "\": \"">> \o detail \o <<"\"">>}

\* C15: when the typed handler of a registered module fails during execute or query,
\* the error the dispatcher returns names the module and the operation: it is
\* ExecutionError(name, detail) for execute and QueryError(name, detail) for query,
\* with name the envelope's key and detail the module's error text.
C15_ErrorNamesModule ==
    (Returned({"execute", "query"}) /\ Len(invoked) = 1 /\ invoked[1].typed
        /\ invoked[1].ret.err.text = <<"boom">>)
        => /\ ~result.ok
           /\ req.op = "execute" =>
                  result.err.text \in ExecutionErrorTexts(vals[1].key, <<"boom">>)
           /\ req.op = "query" =>
                  result.err.text \in QueryErrorTexts(vals[1].key, <<"boom">>)

\* C18: instantiate on an empty object envelope does not fail: it invokes no handler
\* and returns a response with no events, attributes or messages and no data field,
\* while execute and query reject the envelope without entries.
C18_EmptyEnvelope ==
    (pc = "returned" /\ req.kind = "object" /\ vals = <<>>)
        => /\ req.op = "instantiate" =>
                  /\ result.ok
                  /\ result.val = <<[messages |-> <<>>, attributes |-> <<>>,
                                     events |-> <<>>, data |-> <<>>]>>
           /\ req.op \in {"execute", "query"} =>
                  (~result.ok /\ result.err.text \in TooManyTexts)
           /\ invoked = <<>>
           /\ mstate = pre.mstate

C18_Witness ==
    /\ Returned({"instantiate"})
    /\ req.kind = "object"
    /\ vals = <<>>
    /\ result.ok
    /\ DOMAIN modules = {"a", "b"}

\* C14: the registry is append-only and changed by register alone: no step of any call
\* removes a name, and a step that adds a name or changes the handle a name is bound
\* to is a register call; execute, query and every step of instantiate, successful or
\* failing, leave the registry as it was.
C14_RegistryAppendOnly ==
    [][ /\ DOMAIN modules \subseteq DOMAIN modules'
        /\ (modules' # modules) => (pc = "idle" /\ req'.op = "register")
        /\ (req'.op \in {"execute", "query", "instantiate"}) => (modules' = modules) ]_vars

C14_Witness ==
    /\ Returned({"execute", "query", "instantiate"})
    /\ DOMAIN modules = {"a", "b"}
    /\ modules = pre.modules
    /\ invoked # <<>>
    /\ ~result.ok

\* The handlers a call has invoked are one per envelope entry, in the entries' order,
\* none twice; only the last of them can have failed, and then the call is over with
\* that error; a call that is over has one outcome, a call under way has none.
InvokedOncePerEntry ==
    /\ Len(invoked) <= Len(vals)
    /\ \A i \in DOMAIN invoked :
           /\ invoked[i].name = vals[i].key
           /\ invoked[i].payload = vals[i].value
           /\ i < Len(invoked) => invoked[i].ret.ok
           /\ ~invoked[i].ret.ok => (pc = "returned" /\ ~result.ok /\ result.err = invoked[i].ret.err)
    /\ req.op \in {"execute", "query"} => Len(invoked) <= 1
    /\ pc = "instantiate" => (result = NoResult /\ idx = Len(invoked) + 1)
    /\ (pc = "returned" /\ req.op \in {"execute", "query", "instantiate"}) =>
           /\ result.op = req.op
           /\ result.ok <=> (Len(result.val) = 1 /\ result.err = NoErr)
           /\ ~result.ok <=> (result.val = <<>> /\ result.err # NoErr)

\* C16: every dispatch call reaches exactly one terminal outcome, a response or an
\* error, after invoking at most one handler per envelope entry: nothing is retried,
\* the first error ends the call, instantiate over k entries invokes at most k
\* handlers, and an instantiate that has entered its loop does return.
C16_OneTerminalOutcome ==
    /\ []InvokedOncePerEntry
    /\ (pc = "instantiate") ~> (pc = "returned")

C16_Witness ==
    /\ Returned({"instantiate"})
    /\ Len(vals) = 2
    /\ Len(invoked) = 2
    /\ invoked[1].ret.ok
    /\ ~invoked[2].ret.ok
    /\ ~result.ok

\* The handles whose RefCell is borrowed after the first i events of a log.
Held(log, i) ==
    {h \in Handles :
        Cardinality({j \in 1..i : log[j].handle = h /\ log[j].ev # "drop"})
            > Cardinality({j \in 1..i : log[j].handle = h /\ log[j].ev = "drop"})}

\* C17: at most one module handle is borrowed at any point of a dispatch call, and the
\* borrow is released before the next envelope entry is resolved and before the call
\* returns: every handler invocation borrows its handle, no borrow is requested while
\* any handle is still borrowed, and none is outstanding between entries or at the
\* return, also when two entries are bound to the same handle.
C17_OneBorrowAtATime ==
    /\ Len(borrows) = 2 * Len(invoked)
    /\ \A i \in DOMAIN invoked :
           /\ borrows[2 * i - 1].handle = invoked[i].handle
           /\ borrows[2 * i - 1].ev = IF invoked[i].op = "query" THEN "borrow" ELSE "borrow_mut"
    /\ \A i \in DOMAIN borrows :
           /\ Cardinality(Held(borrows, i)) <= 1
           /\ borrows[i].ev # "drop" => Held(borrows, i - 1) = {}
    /\ Held(borrows, Len(borrows)) = {}

C17_Witness ==
    /\ Returned({"instantiate"})
    /\ result.ok
    /\ DOMAIN modules = {"a", "b"}
    /\ modules["a"] = modules["b"]
    /\ Len(invoked) = 2
    /\ invoked[1].handle = invoked[2].handle
    /\ invoked[1].name # invoked[2].name
    /\ Len(borrows) = 4

====
